---- MODULE Spec2Model ----
(***************************************************************************)
(* Traffic-signal controller of src/src/pages/Index.tsx (component Index)  *)
(* as a state machine.  The React state of the component is the state of   *)
(* the model; every event handler and every timer callback is one atomic   *)
(* action (run-to-completion on the single JavaScript thread, state        *)
(* updates of one callback are batched into one render).                   *)
(*                                                                         *)
(* A closure created by startOptimization keeps the `lanes` array of the   *)
(* render in which the Start button was clicked; the model keeps that      *)
(* array in the run record (field snap) and every read of `lanes` inside   *)
(* runCycle / the countdown callback reads snap, while every functional    *)
(* update setLanes(prev => ...) works on the current state `lanes`.        *)
(*                                                                         *)
(* Array indices are 1-based here (lane number = JavaScript index + 1).    *)
(***************************************************************************)
EXTENDS Integers, Sequences, FiniteSets, TLC

\* ------------------------------------------------------------------------
\* Bounds of the exploration (not program constants)
\* ------------------------------------------------------------------------
MaxUploads == 3
MaxPending == 2
MaxStarts == 1
MaxCycles == 3
MaxInputTicks == 3
MaxGaCalls == 2

\* ------------------------------------------------------------------------
\* Program constants
\* ------------------------------------------------------------------------
maxGenerations == 100
MinGreenEmergency == 15
MinGreenRegular == 10
EmergencyPriority == 100000
GraceSeconds == 2
populationSize == 100
mutationRatePercent == 15
crossoverRatePercent == 80
eliteSize == 20
tournamentSize == 5

\* the lane counts offered by the configuration card
LaneCountChoices == {2, 3, 4}

\* JavaScript `undefined` stored in a numeric field
Undef == 0 - 1

VARIABLES
  laneCount,             \* 0 stands for null
  lanes,
  isAnalyzing,
  isOptimizing,
  generation,
  avgWaitTime,
  throughput,
  currentGreenLane,
  showResults,
  optimizationStartTime, \* 0, or 1 for "a Date.now() value"
  totalVehiclesAtStart,
  gaLaneCount,           \* gene count of ga.population, 0 while it is empty
  pending,               \* analyses in flight, per lane number
  uploads,               \* number of uploads begun (exploration budget)
  runs,                  \* the closures created by runGeneticAlgorithm
  hung,                  \* the JavaScript thread spins in a loop forever
  crashed,               \* a render threw, React unmounted the tree
  ticks,                 \* timer callbacks run since the last start (exploration budget)
  serviceOrder,          \* laneOrder of the latest runCycle
  population,            \* ga.population, followed by the specifications of
                         \* the GeneticAlgorithm class only (the session
                         \* specifications follow its gene count gaLaneCount)
  gaCall                 \* the latest call of a GeneticAlgorithm method

vars == <<laneCount, lanes, isAnalyzing, isOptimizing, generation, avgWaitTime,
          throughput, currentGreenLane, showResults, optimizationStartTime,
          totalVehiclesAtStart, gaLaneCount, pending, uploads, runs, hung,
          crashed, ticks, serviceOrder, population, gaCall>>

gaVars == <<population, gaCall>>

\* ------------------------------------------------------------------------
\* Lane records.  kind distinguishes an object, a hole of a sparse array
\* and an element whose value is undefined.
\* ------------------------------------------------------------------------
LaneData(img, vc, em, cong, sig, wait, green) ==
  [kind |-> "obj", image |-> img, vehicleCount |-> vc, hasEmergency |-> em,
   congestionLevel |-> cong, signalState |-> sig, waitingTime |-> wait,
   greenDuration |-> green]

DefaultLane == LaneData("null", 0, FALSE, 0, "red", 0, 0)

Hole == [LaneData("undefined", Undef, FALSE, Undef, "undefined", Undef, Undef)
           EXCEPT !.kind = "hole"]

UndefElem == [Hole EXCEPT !.kind = "undef"]

\* {...undefined}: an object none of whose fields is set
EmptyObj == [Hole EXCEPT !.kind = "obj"]

IsObj(l) == l.kind = "obj"

\* the results the vision oracle returns in this exploration
Observations ==
  { [vehicleCount |-> 0, hasEmergency |-> FALSE, congestionLevel |-> 0],
    [vehicleCount |-> 5, hasEmergency |-> FALSE, congestionLevel |-> 40],
    [vehicleCount |-> 2, hasEmergency |-> TRUE,  congestionLevel |-> 0] }

\* ------------------------------------------------------------------------
\* Arithmetic helpers
\* ------------------------------------------------------------------------
Max(a, b) == IF a >= b THEN a ELSE b

\* Math.ceil(n / d), n >= 0, d > 0
CeilDiv(n, d) == (n + d - 1) \div d

\* Math.round(n / d), n >= 0, d > 0 (halves round up)
RoundDiv(n, d) == (2 * n + d) \div (2 * d)

SetMin(S) == CHOOSE x \in S : \A y \in S : x <= y

RECURSIVE SumSeq(_)
SumSeq(s) == IF s = <<>> THEN 0 ELSE Head(s) + SumSeq(Tail(s))

\* the elements of an array that reduce/filter/map callbacks visit
Visited(ls) == {i \in 1..Len(ls) : ls[i].kind # "hole"}

\* lanes.reduce((sum, lane) => sum + lane.vehicleCount, 0)
TotalVehicles(ls) ==
  SumSeq([i \in 1..Len(ls) |-> IF IsObj(ls[i]) THEN ls[i].vehicleCount ELSE 0])

\* ------------------------------------------------------------------------
\* runCycle: the service order (laneOrder)
\* ------------------------------------------------------------------------
\* an entry whose green time has the regular floor for every lane
OrderEntryOneFloor(lane, i) ==
  LET halfVehicles == CeilDiv(lane.vehicleCount, 2)
      timePerVehicle == IF lane.hasEmergency THEN 2 ELSE 3
      halfClearanceTime == halfVehicles * timePerVehicle
  IN [idx |-> i,
      priority |-> IF lane.hasEmergency THEN EmergencyPriority
                   ELSE lane.congestionLevel,
      vehicleCount |-> lane.vehicleCount,
      halfVehicles |-> halfVehicles,
      greenTime |-> Max(MinGreenRegular, halfClearanceTime),
      isEmergency |-> lane.hasEmergency]

\* one element of lanes.map((lane, idx) => ({idx, priority, ...}))
OrderEntry(lane, i) ==
  LET halfVehicles == CeilDiv(lane.vehicleCount, 2)
      timePerVehicle == IF lane.hasEmergency THEN 2 ELSE 3
      halfClearanceTime == halfVehicles * timePerVehicle
  IN [idx |-> i,
      priority |-> IF lane.hasEmergency THEN EmergencyPriority
                   ELSE lane.congestionLevel,
      vehicleCount |-> lane.vehicleCount,
      halfVehicles |-> halfVehicles,
      greenTime |-> IF lane.hasEmergency
                    THEN Max(MinGreenEmergency, halfClearanceTime)
                    ELSE Max(MinGreenRegular, halfClearanceTime),
      isEmergency |-> lane.hasEmergency]

\* a comparator with the emergency branches the wrong way round
compareLanesSwapped(a, b) ==
  IF a.isEmergency /\ ~b.isEmergency THEN 1
  ELSE IF ~a.isEmergency /\ b.isEmergency THEN -1
  ELSE b.priority - a.priority

\* a comparator that sorts lanes of equal emergency status by ascending
\* priority
compareLanesAscending(a, b) ==
  IF a.isEmergency /\ ~b.isEmergency THEN -1
  ELSE IF ~a.isEmergency /\ b.isEmergency THEN 1
  ELSE a.priority - b.priority

\* the value the sort comparator returns for (a, b)
compareLanes(a, b) ==
  IF a.isEmergency /\ ~b.isEmergency THEN -1
  ELSE IF ~a.isEmergency /\ b.isEmergency THEN 1
  ELSE b.priority - a.priority

\* Array.prototype.sort is stable: x goes before the first element it
\* strictly precedes
RECURSIVE SortInsert(_, _)
SortInsert(x, s) ==
  IF s = <<>> THEN <<x>>
  ELSE IF compareLanes(x, Head(s)) < 0 THEN <<x>> \o s
  ELSE <<Head(s)>> \o SortInsert(x, Tail(s))

RECURSIVE StableSort(_)
StableSort(s) ==
  IF s = <<>> THEN <<>>
  ELSE SortInsert(s[Len(s)], StableSort(SubSeq(s, 1, Len(s) - 1)))

\* .filter(lane => lane.vehicleCount > 0), holes are skipped by map/filter
RECURSIVE MapFilter(_, _)
MapFilter(ls, i) ==
  IF i > Len(ls) THEN <<>>
  ELSE IF IsObj(ls[i]) /\ ls[i].vehicleCount > 0
       THEN <<OrderEntry(ls[i], i)>> \o MapFilter(ls, i + 1)
       ELSE MapFilter(ls, i + 1)

laneOrder(ls) == StableSort(MapFilter(ls, 1))

\* laneOrder[k % laneOrder.length]
At(order, k) == order[(k % Len(order)) + 1]

\* laneOrder.findIndex(item => item.idx === idx), 0 when there is none
FindIndex(order, i) ==
  IF \E p \in 1..Len(order) : order[p].idx = i
  THEN CHOOSE p \in 1..Len(order) : order[p].idx = i
  ELSE 0

\* the loop `while (pos !== lanePosition)` of newWaitTimes, from position
\* pos (1-based) up to position lanePosition
RECURSIVE WaitLoop(_, _, _)
WaitLoop(order, pos, lanePosition) ==
  IF pos = lanePosition THEN 0
  ELSE order[pos].greenTime + WaitLoop(order, (pos % Len(order)) + 1, lanePosition)

\* the loop never ends for a lane that is not in laneOrder
WaitLoopSpins(ls, order, cycleIndex) ==
  \E i \in Visited(ls) :
    /\ i # At(order, cycleIndex).idx
    /\ FindIndex(order, i) = 0

\* waiting times summed from the position after the current one
newWaitTimesSkipsCurrent(ls, order, cycleIndex, i) ==
  IF i \notin Visited(ls) THEN Undef
  ELSE IF i = At(order, cycleIndex).idx THEN 0
  ELSE WaitLoop(order, ((cycleIndex + 1) % Len(order)) + 1, FindIndex(order, i))

\* newWaitTimes[idx], undefined outside the array and in its holes
newWaitTimes(ls, order, cycleIndex, i) ==
  IF i \notin Visited(ls) THEN Undef
  ELSE IF i = At(order, cycleIndex).idx THEN 0
  ELSE WaitLoop(order, (cycleIndex % Len(order)) + 1, FindIndex(order, i))

\* initialSignals that opens the next lane together with the current one
initialSignalsBothGreen(ls, order, cycleIndex, i) ==
  IF i \notin Visited(ls) THEN "undefined"
  ELSE IF i = At(order, cycleIndex).idx THEN "green"
  ELSE IF i = At(order, cycleIndex + 1).idx THEN "green"
  ELSE "red"

\* initialSignals that leaves the following lane red
initialSignalsNoYellow(ls, order, cycleIndex, i) ==
  IF i \notin Visited(ls) THEN "undefined"
  ELSE IF i = At(order, cycleIndex).idx THEN "green"
  ELSE "red"

\* initialSignals[idx]
initialSignals(ls, order, cycleIndex, i) ==
  IF i \notin Visited(ls) THEN "undefined"
  ELSE IF i = At(order, cycleIndex).idx THEN "green"
  ELSE IF i = At(order, cycleIndex + 1).idx THEN "yellow"
  ELSE "red"

\* newSignals[idx] of the countdown callback; cycleIndex is the value the
\* shared closure variable has when the callback runs
newSignals(ls, order, cycleIndex, i) ==
  IF i \notin Visited(ls) THEN "undefined"
  ELSE IF i = At(order, cycleIndex + 1).idx THEN "green"
  ELSE IF i = At(order, cycleIndex + 2).idx THEN "yellow"
  ELSE "red"

\* prev.map(f): holes stay holes, f sees objects and undefined elements
\* ({...undefined} is the empty object)
Spread(l) == IF l.kind = "undef" THEN EmptyObj ELSE l

\* a cycle start that allocates a green duration to the lane served only
CycleLanesActiveOnly(prev, ls, order, cycleIndex) ==
  [i \in 1..Len(prev) |->
     IF prev[i].kind = "hole" THEN prev[i]
     ELSE [Spread(prev[i]) EXCEPT
             !.waitingTime = newWaitTimes(ls, order, cycleIndex, i),
             !.greenDuration =
                IF i = At(order, cycleIndex).idx
                THEN At(order, cycleIndex).greenTime ELSE 0,
             !.signalState = initialSignals(ls, order, cycleIndex, i)]]

\* the two setLanes calls of runCycle applied to the current lanes
CycleLanes(prev, ls, order, cycleIndex) ==
  [i \in 1..Len(prev) |->
     IF prev[i].kind = "hole" THEN prev[i]
     ELSE [Spread(prev[i]) EXCEPT
             !.waitingTime = newWaitTimes(ls, order, cycleIndex, i),
             !.greenDuration =
                IF FindIndex(order, i) # 0
                THEN order[FindIndex(order, i)].greenTime ELSE 0,
             !.signalState = initialSignals(ls, order, cycleIndex, i)]]

\* setAvgWaitTime(Math.round(totalWait / lanes.length))
CycleAvgWait(ls, order, cycleIndex) ==
  RoundDiv(SumSeq([i \in 1..Len(ls) |->
                     IF i \in Visited(ls)
                     THEN newWaitTimes(ls, order, cycleIndex, i) ELSE 0]),
           Len(ls))

\* a countdown whose early-exit target is the whole lane
NewIntervalWholeLane(ls, order, cycleIndex) ==
  LET cur == At(order, cycleIndex)
  IN [currentLaneIdx |-> cur.idx,
      currentGreenTime |-> cur.greenTime,
      remainingTime |-> cur.greenTime,
      initialVehicleCount |-> ls[cur.idx].vehicleCount,
      initialCongestion |-> ls[cur.idx].congestionLevel,
      targetVehiclesToClear |-> ls[cur.idx].vehicleCount,
      elapsedSeconds |-> 0,
      due |-> 1]

\* the countdown interval a cycle creates; elapsedSeconds counts the
\* callbacks of the interval that have run, one per second
NewInterval(ls, order, cycleIndex) ==
  LET cur == At(order, cycleIndex)
  IN [currentLaneIdx |-> cur.idx,
      currentGreenTime |-> cur.greenTime,
      remainingTime |-> cur.greenTime,
      initialVehicleCount |-> ls[cur.idx].vehicleCount,
      initialCongestion |-> ls[cur.idx].congestionLevel,
      targetVehiclesToClear |-> CeilDiv(ls[cur.idx].vehicleCount, 2),
      elapsedSeconds |-> 0,
      due |-> 1]

\* ------------------------------------------------------------------------
\* Timers.  Every timer carries the seconds left until it is due; the
\* event loop runs a timer that is due first, timers due at the same
\* instant run in either order.
\* ------------------------------------------------------------------------
NewRun(ls) ==
  [snap |-> ls, currentGen |-> 0, cycleIndex |-> 0,
   tmoKind |-> "none", tmoDue |-> 0, ivs |-> <<>>, cancelled |-> FALSE]

Dues(rs) ==
  {rs[r].tmoDue : r \in {q \in 1..Len(rs) : rs[q].tmoKind # "none"}}
  \cup UNION {{rs[r].ivs[i].due : i \in 1..Len(rs[r].ivs)} : r \in 1..Len(rs)}

\* d seconds pass
Elapse(rs, d) ==
  [r \in 1..Len(rs) |->
     [rs[r] EXCEPT
        !.tmoDue = IF rs[r].tmoKind = "none" THEN 0 ELSE @ - d,
        !.ivs = [i \in 1..Len(rs[r].ivs) |->
                   [rs[r].ivs[i] EXCEPT !.due = @ - d]]]]

RemoveAt(s, i) == SubSeq(s, 1, i - 1) \o SubSeq(s, i + 1, Len(s))

LiveTimeouts(rs) == {r \in 1..Len(rs) : rs[r].tmoKind # "none"}

LiveIntervals(rs) == {<<r, i>> \in (1..Len(rs)) \X (1..2) : i <= Len(rs[r].ivs)}

\* a render of Index throws: an element of lanes is undefined, or
\* TrafficLane calls signalState.toUpperCase() on undefined
RenderCrash(lc, ls) ==
  /\ lc # 0
  /\ \E i \in 1..Len(ls) :
       \/ ls[i].kind = "undef"
       \/ IsObj(ls[i]) /\ ls[i].signalState = "undefined"

Alive == ~hung /\ ~crashed

\* the user and the vision oracle act while no timer is pending or in the
\* first MaxInputTicks callbacks after a start
InputWindow == Dues(runs) = {} \/ ticks <= MaxInputTicks

Tick == IF ticks <= MaxInputTicks THEN ticks + 1 ELSE ticks

\* TrafficLane renders its file input for a lane without vehicles; files
\* are chosen through it (drag and drop is not exercised)
FileInputShown(laneNumber) ==
  /\ laneNumber \in 1..Len(lanes)
  /\ IsObj(lanes[laneNumber])
  /\ lanes[laneNumber].vehicleCount = 0

\* ------------------------------------------------------------------------
\* initializeLanes(count): the configuration card is shown while
\* laneCount is null
\* ------------------------------------------------------------------------
initializeLanes(count) ==
  /\ Alive
  /\ laneCount = 0
  /\ laneCount' = count
  /\ lanes' = [i \in 1..count |-> DefaultLane]
  /\ crashed' = RenderCrash(laneCount', lanes')
  /\ UNCHANGED <<isAnalyzing, isOptimizing, generation, avgWaitTime,
                 throughput, currentGreenLane, showResults,
                 optimizationStartTime, totalVehiclesAtStart, gaLaneCount,
                 pending, uploads, runs, hung, ticks, serviceOrder>>

\* ------------------------------------------------------------------------
\* handleImageUpload(laneNumber, file): up to the await
\* ------------------------------------------------------------------------
PendingCount == SumSeq([n \in 1..4 |-> pending[n]])

handleImageUploadBegin(laneNumber) ==
  /\ Alive
  /\ laneCount # 0
  /\ laneNumber \in 1..Len(lanes)
  /\ IsObj(lanes[laneNumber])
  /\ isAnalyzing' = TRUE
  /\ pending' = [pending EXCEPT ![laneNumber] = @ + 1]
  /\ uploads' = uploads + 1
  /\ UNCHANGED <<laneCount, lanes, isOptimizing, generation, avgWaitTime,
                 throughput, currentGreenLane, showResults,
                 optimizationStartTime, totalVehiclesAtStart, gaLaneCount,
                 runs, hung, crashed, ticks, serviceOrder>>

\* an update that omits signalState: "red"
InstallObservationKeepsSignal(prev, laneNumber, analysis) ==
  LET old == IF laneNumber <= Len(prev) THEN Spread(prev[laneNumber])
             ELSE EmptyObj
      new == [old EXCEPT !.image = "file",
                         !.vehicleCount = analysis.vehicleCount,
                         !.hasEmergency = analysis.hasEmergency,
                         !.congestionLevel = analysis.congestionLevel,
                         !.waitingTime = 0,
                         !.greenDuration = 0]
  IN [i \in 1..Max(Len(prev), laneNumber) |->
        IF i = laneNumber THEN new
        ELSE IF i > Len(prev) THEN Hole
        ELSE IF prev[i].kind = "hole" THEN UndefElem
        ELSE prev[i]]

\* updated = [...prev]; updated[laneNumber - 1] = {...}: the spread turns
\* holes of prev into undefined elements, an index past the end leaves holes
InstallObservation(prev, laneNumber, analysis) ==
  LET old == IF laneNumber <= Len(prev) THEN Spread(prev[laneNumber])
             ELSE EmptyObj
      new == [old EXCEPT !.image = "file",
                         !.vehicleCount = analysis.vehicleCount,
                         !.hasEmergency = analysis.hasEmergency,
                         !.congestionLevel = analysis.congestionLevel,
                         !.signalState = "red",
                         !.waitingTime = 0,
                         !.greenDuration = 0]
  IN [i \in 1..Max(Len(prev), laneNumber) |->
        IF i = laneNumber THEN new
        ELSE IF i > Len(prev) THEN Hole
        ELSE IF prev[i].kind = "hole" THEN UndefElem
        ELSE prev[i]]

\* handleImageUpload after the await: the analysis resolved
handleImageUploadDone(laneNumber, analysis) ==
  /\ Alive
  /\ pending[laneNumber] > 0
  /\ pending' = [pending EXCEPT ![laneNumber] = @ - 1]
  /\ lanes' = InstallObservation(lanes, laneNumber, analysis)
  /\ isAnalyzing' = FALSE
  /\ crashed' = RenderCrash(laneCount, lanes')
  /\ UNCHANGED <<laneCount, isOptimizing, generation, avgWaitTime,
                 throughput, currentGreenLane, showResults,
                 optimizationStartTime, totalVehiclesAtStart, gaLaneCount,
                 uploads, runs, hung, ticks, serviceOrder>>

\* a catch branch that installs an observation of no vehicles
handleImageUploadFailedClearsLane(laneNumber) ==
  /\ Alive
  /\ pending[laneNumber] > 0
  /\ pending' = [pending EXCEPT ![laneNumber] = @ - 1]
  /\ isAnalyzing' = FALSE
  /\ lanes' = InstallObservation(lanes, laneNumber,
                [vehicleCount |-> 0, hasEmergency |-> FALSE,
                 congestionLevel |-> 0])
  /\ UNCHANGED <<laneCount, isOptimizing, generation, avgWaitTime,
                 throughput, currentGreenLane, showResults,
                 optimizationStartTime, totalVehiclesAtStart, gaLaneCount,
                 uploads, runs, hung, crashed, ticks, serviceOrder>>

\* handleImageUpload after the await: analyzeTrafficImage rejected
handleImageUploadFailed(laneNumber) ==
  /\ Alive
  /\ pending[laneNumber] > 0
  /\ pending' = [pending EXCEPT ![laneNumber] = @ - 1]
  /\ isAnalyzing' = FALSE
  /\ UNCHANGED <<laneCount, lanes, isOptimizing, generation, avgWaitTime,
                 throughput, currentGreenLane, showResults,
                 optimizationStartTime, totalVehiclesAtStart, gaLaneCount,
                 uploads, runs, hung, crashed, ticks, serviceOrder>>

\* ------------------------------------------------------------------------
\* runCycle
\* ------------------------------------------------------------------------
\* the closure of run after the part of runCycle that schedules: the
\* generation counter, the new countdown, cycleIndex++ and the timeout
ScheduleCycle(run) ==
  LET order == laneOrder(run.snap)
      greenTime == At(order, run.cycleIndex).greenTime
  IN [run EXCEPT
        !.currentGen = @ + 1,
        !.cycleIndex = @ + 1,
        !.ivs = Append(@, NewInterval(run.snap, order, run.cycleIndex)),
        !.tmoKind = IF run.currentGen + 1 >= maxGenerations
                    THEN "final" ELSE "cycle",
        !.tmoDue = greenTime]

\* a runCycle that takes the green time of the lane it serves from the
\* chromosome evolve has just returned
runCycleUsesBest(rs, r) ==
  LET run == rs[r]
      order == laneOrder(run.snap)
      best == population'[1]
  IN IF TotalVehicles(run.snap) = 0
     THEN /\ isOptimizing' = FALSE
          /\ showResults' = TRUE
          /\ runs' = rs
          /\ UNCHANGED <<lanes, generation, avgWaitTime, throughput,
                         currentGreenLane, hung, crashed, serviceOrder>>
     ELSE IF WaitLoopSpins(run.snap, order, run.cycleIndex)
     THEN /\ hung' = TRUE
          /\ runs' = rs
          /\ UNCHANGED <<lanes, isOptimizing, showResults, generation,
                         avgWaitTime, throughput, currentGreenLane, crashed,
                         serviceOrder>>
     ELSE /\ serviceOrder' = order
          /\ generation' = run.currentGen + 1
          /\ lanes' = CycleLanes(lanes, run.snap, order, run.cycleIndex)
          /\ currentGreenLane' = At(order, run.cycleIndex).idx
          /\ avgWaitTime' = CycleAvgWait(run.snap, order, run.cycleIndex)
          /\ throughput' = throughput + At(order, run.cycleIndex).halfVehicles
          /\ runs' = [rs EXCEPT ![r] =
                        [ScheduleCycle(run) EXCEPT !.tmoDue =
                           best.greenTimes[At(order, run.cycleIndex).idx]]]
          /\ crashed' = RenderCrash(laneCount, lanes')
          /\ UNCHANGED <<isOptimizing, showResults, hung>>

\* runCycle of the run rs[r], called by its timeout
runCycle(rs, r) ==
  LET run == rs[r]
      order == laneOrder(run.snap)
  IN IF TotalVehicles(run.snap) = 0
     THEN /\ isOptimizing' = FALSE
          /\ showResults' = TRUE
          /\ runs' = rs
          /\ UNCHANGED <<lanes, generation, avgWaitTime, throughput,
                         currentGreenLane, hung, crashed, serviceOrder>>
     ELSE IF WaitLoopSpins(run.snap, order, run.cycleIndex)
     THEN /\ hung' = TRUE
          /\ runs' = rs
          /\ UNCHANGED <<lanes, isOptimizing, showResults, generation,
                         avgWaitTime, throughput, currentGreenLane, crashed,
                         serviceOrder>>
     ELSE /\ serviceOrder' = order
          /\ generation' = run.currentGen + 1
          /\ lanes' = CycleLanes(lanes, run.snap, order, run.cycleIndex)
          /\ currentGreenLane' = At(order, run.cycleIndex).idx
          /\ avgWaitTime' = CycleAvgWait(run.snap, order, run.cycleIndex)
          /\ throughput' = throughput + At(order, run.cycleIndex).halfVehicles
          /\ runs' = [rs EXCEPT ![r] = ScheduleCycle(run)]
          /\ crashed' = RenderCrash(laneCount, lanes')
          /\ UNCHANGED <<isOptimizing, showResults, hung>>

\* ------------------------------------------------------------------------
\* startOptimization: the Start button is rendered while laneCount is not
\* null and disabled while optimizing, analyzing or no lane has an image
\* ------------------------------------------------------------------------
StartEnabled ==
  /\ Alive
  /\ laneCount # 0
  /\ ~(isOptimizing \/ isAnalyzing
         \/ \A i \in Visited(lanes) : lanes[i].image = "null")

\* the two early returns of startOptimization
StartRejected(ls) ==
  \/ \A i \in Visited(ls) : ls[i].image = "null"
  \/ TotalVehicles(ls) = 0

\* an early return taken after setIsOptimizing(true)
RejectStartOptimizing ==
  /\ isOptimizing' = TRUE
  /\ UNCHANGED <<laneCount, lanes, isAnalyzing, generation, avgWaitTime,
                 throughput, currentGreenLane, showResults,
                 optimizationStartTime, totalVehiclesAtStart, gaLaneCount,
                 pending, uploads, runs, hung, crashed, ticks, serviceOrder>>

\* an early return: a toast is shown, nothing else happens
RejectStart == UNCHANGED vars

\* startOptimization past its checks, with the first runCycle it calls
AcceptStart ==
  IF WaitLoopSpins(lanes, laneOrder(lanes), 0)
  THEN \* the first runCycle never returns: no state update of this
       \* handler is ever rendered, ga has been initialized in memory
       /\ hung' = TRUE
       /\ gaLaneCount' = laneCount
       /\ UNCHANGED <<laneCount, lanes, isAnalyzing, isOptimizing,
                      generation, avgWaitTime, throughput,
                      currentGreenLane, showResults,
                      optimizationStartTime, totalVehiclesAtStart,
                      pending, uploads, runs, crashed, ticks,
                      serviceOrder>>
  ELSE LET order == laneOrder(lanes)
       IN /\ serviceOrder' = order
          /\ showResults' = FALSE
          /\ isOptimizing' = TRUE
          /\ optimizationStartTime' = 1
          /\ totalVehiclesAtStart' = TotalVehicles(lanes)
          /\ gaLaneCount' = laneCount
          /\ generation' = 1
          /\ lanes' = CycleLanes(lanes, lanes, order, 0)
          /\ currentGreenLane' = At(order, 0).idx
          /\ avgWaitTime' = CycleAvgWait(lanes, order, 0)
          /\ throughput' = 0 + At(order, 0).halfVehicles
          /\ runs' = Append(runs, ScheduleCycle(NewRun(lanes)))
          /\ crashed' = RenderCrash(laneCount, lanes')
          /\ ticks' = 0
          /\ UNCHANGED <<laneCount, isAnalyzing, pending, uploads, hung>>

startOptimization ==
  /\ StartEnabled
  /\ IF StartRejected(lanes) THEN RejectStart ELSE AcceptStart

\* setTimeout(runCycle, currentGreenTime * 1000) fires
CycleTimeout(r) ==
  /\ Alive
  /\ runs[r].tmoKind = "cycle"
  /\ runs[r].tmoDue = SetMin(Dues(runs))
  /\ LET rs == Elapse(runs, runs[r].tmoDue)
     IN runCycle([rs EXCEPT ![r].tmoKind = "none", ![r].tmoDue = 0], r)
  /\ ticks' = Tick
  /\ UNCHANGED <<laneCount, isAnalyzing, optimizationStartTime,
                 totalVehiclesAtStart, gaLaneCount, pending, uploads>>

\* the timeout of the generation cap fires
FinalTimeout(r) ==
  /\ Alive
  /\ runs[r].tmoKind = "final"
  /\ runs[r].tmoDue = SetMin(Dues(runs))
  /\ runs' = [Elapse(runs, runs[r].tmoDue) EXCEPT ![r].tmoKind = "none",
                                                  ![r].tmoDue = 0]
  /\ isOptimizing' = FALSE
  /\ ticks' = Tick
  /\ UNCHANGED <<laneCount, lanes, isAnalyzing, generation, avgWaitTime,
                 throughput, currentGreenLane, showResults,
                 optimizationStartTime, totalVehiclesAtStart, gaLaneCount,
                 pending, uploads, hung, crashed, serviceOrder>>

\* ------------------------------------------------------------------------
\* the countdown callback of setInterval(..., 1000)
\* ------------------------------------------------------------------------
\* the branch of the updater that drains the green lane is taken
DrainsGreen(prev, iv) ==
  /\ iv.currentLaneIdx <= Len(prev)
  /\ IsObj(prev[iv.currentLaneIdx])
  /\ prev[iv.currentLaneIdx].signalState = "green"

\* vehiclesMoved after remainingTime has been decremented to rem
vehiclesMoved(lane, iv, rem) ==
  (iv.currentGreenTime - rem) \div (IF lane.hasEmergency THEN 2 ELSE 3)

\* AUTO-SWITCH: remainingTime after the updater has run
remainingAfter(prev, iv, rem) ==
  IF /\ DrainsGreen(prev, iv)
     /\ vehiclesMoved(prev[iv.currentLaneIdx], iv, rem) >= iv.targetVehiclesToClear
     /\ rem > GraceSeconds
  THEN GraceSeconds ELSE rem

\* an updater that decrements the waiting time of a lane that has none left
TickLaneNoFloor(prev, iv, rem, i) ==
  LET lane == prev[i]
      moved == vehiclesMoved(lane, iv, rem)
      vehiclesRemaining == Max(0, iv.initialVehicleCount - moved)
      newCongestion ==
        IF iv.initialVehicleCount > 0 /\ vehiclesRemaining > 0
        THEN RoundDiv(vehiclesRemaining * iv.initialCongestion,
                      iv.initialVehicleCount)
        ELSE 0
  IN IF lane.kind = "hole" THEN lane
     ELSE IF i = iv.currentLaneIdx /\ lane.signalState = "green"
     THEN [lane EXCEPT !.greenDuration = remainingAfter(prev, iv, rem),
                       !.vehicleCount = vehiclesRemaining,
                       !.congestionLevel = newCongestion]
     ELSE IF lane.waitingTime # Undef
     THEN [lane EXCEPT !.waitingTime = @ - 1]
     ELSE lane

\* the lane the updater returns for prev[i]
TickLane(prev, iv, rem, i) ==
  LET lane == prev[i]
      moved == vehiclesMoved(lane, iv, rem)
      vehiclesRemaining == Max(0, iv.initialVehicleCount - moved)
      newCongestion ==
        IF iv.initialVehicleCount > 0 /\ vehiclesRemaining > 0
        THEN RoundDiv(vehiclesRemaining * iv.initialCongestion,
                      iv.initialVehicleCount)
        ELSE 0
  IN IF lane.kind = "hole" THEN lane
     ELSE IF i = iv.currentLaneIdx /\ lane.signalState = "green"
     THEN [lane EXCEPT !.greenDuration = remainingAfter(prev, iv, rem),
                       !.vehicleCount = vehiclesRemaining,
                       !.congestionLevel = newCongestion]
     ELSE IF lane.waitingTime > 0
     THEN [lane EXCEPT !.waitingTime = @ - 1]
     ELSE lane

\* the signal rotation when the countdown has reached zero
RotateSignals(prev, run) ==
  [i \in 1..Len(prev) |->
     IF prev[i].kind = "hole" THEN prev[i]
     ELSE [Spread(prev[i]) EXCEPT !.signalState =
             newSignals(run.snap, laneOrder(run.snap), run.cycleIndex, i)]]

CountdownTick(r, i) ==
  /\ Alive
  /\ runs[r].ivs[i].due = SetMin(Dues(runs))
  /\ LET rs == Elapse(runs, runs[r].ivs[i].due)
         iv == rs[r].ivs[i]
         rem == iv.remainingTime - 1
         rem2 == remainingAfter(lanes, iv, rem)
         ticked == [j \in 1..Len(lanes) |-> TickLane(lanes, iv, rem, j)]
     IN IF \E j \in 1..Len(lanes) : lanes[j].kind = "undef"
        THEN \* lane.signalState of undefined throws in the updater
             /\ crashed' = TRUE
             /\ UNCHANGED <<lanes, avgWaitTime, runs>>
        ELSE /\ avgWaitTime' = Max(0, avgWaitTime - 1)
             /\ IF rem2 <= 0
                THEN /\ runs' = [rs EXCEPT ![r].ivs = RemoveAt(@, i)]
                     /\ lanes' = RotateSignals(ticked, rs[r])
                ELSE /\ runs' = [rs EXCEPT ![r].ivs[i].remainingTime = rem2,
                                           ![r].ivs[i].elapsedSeconds = @ + 1,
                                           ![r].ivs[i].due = 1]
                     /\ lanes' = ticked
             /\ crashed' = RenderCrash(laneCount, lanes')
  /\ ticks' = Tick
  /\ UNCHANGED <<laneCount, isAnalyzing, isOptimizing, generation,
                 throughput, currentGreenLane, showResults,
                 optimizationStartTime, totalVehiclesAtStart, gaLaneCount,
                 pending, uploads, hung, serviceOrder>>

\* ------------------------------------------------------------------------
\* reset.  No timer is cleared; cancelled only records that the run was
\* started before a reset.
\* ------------------------------------------------------------------------
\* the Reset button is rendered while laneCount is not null
ResetShown == laneCount # 0

\* a reset that forgets setThroughput(0)
resetKeepsThroughput ==
  /\ Alive
  /\ laneCount' = 0
  /\ lanes' = <<>>
  /\ generation' = 0
  /\ avgWaitTime' = 0
  /\ currentGreenLane' = 0
  /\ isOptimizing' = FALSE
  /\ showResults' = FALSE
  /\ optimizationStartTime' = 0
  /\ totalVehiclesAtStart' = 0
  /\ runs' = [r \in 1..Len(runs) |-> [runs[r] EXCEPT !.cancelled = TRUE]]
  /\ UNCHANGED <<throughput, isAnalyzing, gaLaneCount, pending, uploads,
                 hung, crashed, ticks, serviceOrder>>

reset ==
  /\ Alive
  /\ laneCount' = 0
  /\ lanes' = <<>>
  /\ generation' = 0
  /\ avgWaitTime' = 0
  /\ throughput' = 0
  /\ currentGreenLane' = 0
  /\ isOptimizing' = FALSE
  /\ showResults' = FALSE
  /\ optimizationStartTime' = 0
  /\ totalVehiclesAtStart' = 0
  /\ runs' = [r \in 1..Len(runs) |-> [runs[r] EXCEPT !.cancelled = TRUE]]
  /\ UNCHANGED <<isAnalyzing, gaLaneCount, pending, uploads, hung, crashed,
                 ticks, serviceOrder>>

\* ------------------------------------------------------------------------
\* class GeneticAlgorithm.  Math.random() returns k / RandomUnits, the k of
\* successive calls are read from a stream s (repeated for ever); a green
\* time Math.random() * 60 + 20 is then the integer k + 20.  Fitness values
\* are kept multiplied by FitnessScale, which makes every term an integer.
\* ------------------------------------------------------------------------
RandomUnits == 60

FitnessScale == 200

\* the value of fitness after an arithmetic operation on undefined
NaN == 0 - 1000000000

\* the k-th call of Math.random() (k = 0, 1, ...), in units of 1 / RandomUnits
Rand(s, k) == s[(k % Len(s)) + 1]

\* Math.random() < percent / 100
RandBelow(r, percent) == r * 100 < percent * RandomUnits

\* Math.floor(Math.random() * n)
RandIndex(r, n) == (r * n) \div RandomUnits

\* Math.random() * 60 + 20
RandGreenTime(r) == r + 20

\* initialize(laneCount)
initialize(count, s) ==
  [j \in 1..populationSize |->
     [greenTimes |-> [i \in 1..count |->
                        RandGreenTime(Rand(s, (j - 1) * count + (i - 1)))],
      fitness |-> 0]]

\* calculateFitness without the terms of the emergency branch
calculateFitnessNoPriority(chromosome, congestionLevels, emergencyFlags) ==
  LET gt == chromosome.greenTimes
      totalTime == SumSeq(gt)
      hasAnyEmergency == \E i \in 1..Len(emergencyFlags) : emergencyFlags[i]
      flag(i) == i <= Len(emergencyFlags) /\ emergencyFlags[i]
      congestionMultiplier2 == IF hasAnyEmergency THEN 1 ELSE 4
      term(i) ==
        LET time == gt[i]
        IN (IF flag(i) THEN 0
            ELSE IF hasAnyEmergency THEN 0 - time * 5 * FitnessScale
            ELSE 0)
           + (time * congestionLevels[i] * congestionMultiplier2 * FitnessScale)
               \div 200
           + (IF flag(i) THEN 0
              ELSE IF time >= 20 /\ time <= 70 THEN 10 * FitnessScale
              ELSE IF time < 15 \/ time > 90 THEN 0 - 50 * FitnessScale
              ELSE 0)
           + (IF /\ ~hasAnyEmergency
                 /\ 100 * time > 15 * totalTime
                 /\ 10 * time < 4 * totalTime
              THEN 15 * FitnessScale ELSE 0)
      maxCycleTime == IF hasAnyEmergency THEN 400 ELSE 300
  IN IF Len(gt) > Len(congestionLevels) THEN NaN
     ELSE SumSeq([i \in 1..Len(gt) |-> term(i)])
          + (IF totalTime > maxCycleTime
             THEN 0 - ((totalTime - maxCycleTime) * FitnessScale) \div 2
             ELSE 0)

\* a fitness whose +10 term leaves out a green time of exactly 70
calculateFitnessBelow70(chromosome, congestionLevels, emergencyFlags) ==
  LET gt == chromosome.greenTimes
      totalTime == SumSeq(gt)
      hasAnyEmergency == \E i \in 1..Len(emergencyFlags) : emergencyFlags[i]
      flag(i) == i <= Len(emergencyFlags) /\ emergencyFlags[i]
      congestionMultiplier2 == IF hasAnyEmergency THEN 1 ELSE 4
      term(i) ==
        LET time == gt[i]
        IN (IF flag(i)
            THEN time * 30 * FitnessScale
                 + (IF time >= 25 THEN 200 * FitnessScale ELSE 0)
                 + (IF time >= 40 THEN 300 * FitnessScale ELSE 0)
                 + 500 * FitnessScale
            ELSE IF hasAnyEmergency THEN 0 - time * 5 * FitnessScale
            ELSE 0)
           + (time * congestionLevels[i] * congestionMultiplier2 * FitnessScale)
               \div 200
           + (IF flag(i) THEN 0
              ELSE IF time >= 20 /\ time < 70 THEN 10 * FitnessScale
              ELSE IF time < 15 \/ time > 90 THEN 0 - 50 * FitnessScale
              ELSE 0)
           + (IF /\ ~hasAnyEmergency
                 /\ 100 * time > 15 * totalTime
                 /\ 10 * time < 4 * totalTime
              THEN 15 * FitnessScale ELSE 0)
      maxCycleTime == IF hasAnyEmergency THEN 400 ELSE 300
  IN IF Len(gt) > Len(congestionLevels) THEN NaN
     ELSE SumSeq([i \in 1..Len(gt) |-> term(i)])
          + (IF totalTime > maxCycleTime
             THEN 0 - ((totalTime - maxCycleTime) * FitnessScale) \div 2
             ELSE 0)

\* calculateFitness(chromosome, congestionLevels, emergencyFlags), times
\* FitnessScale; an index past the end of emergencyFlags reads undefined
\* (falsy), one past the end of congestionLevels makes the sum NaN
calculateFitness(chromosome, congestionLevels, emergencyFlags) ==
  LET gt == chromosome.greenTimes
      totalTime == SumSeq(gt)
      hasAnyEmergency == \E i \in 1..Len(emergencyFlags) : emergencyFlags[i]
      flag(i) == i <= Len(emergencyFlags) /\ emergencyFlags[i]
      \* twice the congestionMultiplier (0.5 or 2)
      congestionMultiplier2 == IF hasAnyEmergency THEN 1 ELSE 4
      term(i) ==
        LET time == gt[i]
        IN (IF flag(i)
            THEN time * 30 * FitnessScale
                 + (IF time >= 25 THEN 200 * FitnessScale ELSE 0)
                 + (IF time >= 40 THEN 300 * FitnessScale ELSE 0)
                 + 500 * FitnessScale
            ELSE IF hasAnyEmergency THEN 0 - time * 5 * FitnessScale
            ELSE 0)
           + (time * congestionLevels[i] * congestionMultiplier2 * FitnessScale)
               \div 200
           + (IF flag(i) THEN 0
              ELSE IF time >= 20 /\ time <= 70 THEN 10 * FitnessScale
              ELSE IF time < 15 \/ time > 90 THEN 0 - 50 * FitnessScale
              ELSE 0)
           + (IF /\ ~hasAnyEmergency
                 /\ 100 * time > 15 * totalTime
                 /\ 10 * time < 4 * totalTime
              THEN 15 * FitnessScale ELSE 0)
      maxCycleTime == IF hasAnyEmergency THEN 400 ELSE 300
  IN IF Len(gt) > Len(congestionLevels) THEN NaN
     ELSE SumSeq([i \in 1..Len(gt) |-> term(i)])
          + (IF totalTime > maxCycleTime
             THEN 0 - ((totalTime - maxCycleTime) * FitnessScale) \div 2
             ELSE 0)

\* the comparator of an ascending sort, (a, b) => a.fitness - b.fitness
compareFitnessAscending(a, b) ==
  IF a.fitness = NaN \/ b.fitness = NaN THEN 0 ELSE a.fitness - b.fitness

\* the comparator (a, b) => b.fitness - a.fitness; a NaN result counts as 0
compareFitness(a, b) ==
  IF a.fitness = NaN \/ b.fitness = NaN THEN 0 ELSE b.fitness - a.fitness

\* this.population.sort(...), stable: a chromosome stands after those the
\* comparator puts strictly before it and after the earlier ones it ties with
SortByFitness(s) ==
  LET n == Len(s)
      Precedes(i, j) ==
        \/ compareFitness(s[i], s[j]) < 0
        \/ compareFitness(s[i], s[j]) = 0 /\ i < j
      rank == [j \in 1..n |->
                 1 + Cardinality({i \in 1..n : Precedes(i, j)})] \o <<>>
  IN [r \in 1..n |-> s[CHOOSE j \in 1..n : rank[j] = r]] \o <<>>

\* the population after the forEach that scores it and the sort
ScoredPopulation(pop, congestionLevels, emergencyFlags) ==
  SortByFitness([j \in 1..Len(pop) |->
    [pop[j] EXCEPT !.fitness =
       calculateFitness(pop[j], congestionLevels, emergencyFlags)]])

\* tournament.reduce((best, current) => current.fitness > best.fitness ? ...)
RECURSIVE TournamentBest(_, _, _)
TournamentBest(tournament, t, best) ==
  IF t > Len(tournament) THEN best
  ELSE TournamentBest(tournament, t + 1,
         IF /\ tournament[t].fitness # NaN
            /\ best.fitness # NaN
            /\ tournament[t].fitness > best.fitness
         THEN tournament[t] ELSE best)

\* selectParent(), its tournamentSize calls of Math.random() start at k
selectParent(pop, s, k) ==
  LET tournament == [t \in 1..tournamentSize |->
                       pop[RandIndex(Rand(s, k + t - 1), Len(pop)) + 1]]
  IN TournamentBest(tournament, 2, tournament[1])

\* a crossover that takes the genes of parent2 from crossoverPoint + 1 on
crossoverDropsGene(parent1, parent2, r) ==
  LET crossoverPoint == RandIndex(r, Len(parent1.greenTimes))
  IN [greenTimes |-> SubSeq(parent1.greenTimes, 1, crossoverPoint)
                     \o SubSeq(parent2.greenTimes, crossoverPoint + 2,
                               Len(parent2.greenTimes)),
      fitness |-> 0]

\* crossover(parent1, parent2) with crossoverPoint drawn as r
crossover(parent1, parent2, r) ==
  LET crossoverPoint == RandIndex(r, Len(parent1.greenTimes))
  IN [greenTimes |-> SubSeq(parent1.greenTimes, 1, crossoverPoint)
                     \o SubSeq(parent2.greenTimes, crossoverPoint + 1,
                               Len(parent2.greenTimes)),
      fitness |-> 0]

\* the map callback of mutate over the genes from i on; k counts the calls
\* of Math.random()
RECURSIVE MutateGenes(_, _, _, _)
MutateGenes(gt, i, s, k) ==
  IF i > Len(gt) THEN [greenTimes |-> <<>>, k |-> k]
  ELSE IF RandBelow(Rand(s, k), mutationRatePercent)
  THEN LET rest == MutateGenes(gt, i + 1, s, k + 2)
       IN [greenTimes |-> <<RandGreenTime(Rand(s, k + 1))>> \o rest.greenTimes,
           k |-> rest.k]
  ELSE LET rest == MutateGenes(gt, i + 1, s, k + 1)
       IN [greenTimes |-> <<gt[i]>> \o rest.greenTimes, k |-> rest.k]

\* mutate(chromosome): the chromosome and the calls of Math.random() so far
mutate(chromosome, s, k) ==
  LET m == MutateGenes(chromosome.greenTimes, 1, s, k)
  IN [chromosome |-> [greenTimes |-> m.greenTimes,
                      fitness |-> chromosome.fitness],
      k |-> m.k]

\* one pass of the while loop of evolve: the chromosome pushed and the
\* calls of Math.random() so far
BreedOne(pop, s, k) ==
  IF RandBelow(Rand(s, k), crossoverRatePercent)
  THEN LET parent1 == selectParent(pop, s, k + 1)
           parent2 == selectParent(pop, s, k + 1 + tournamentSize)
           child == crossover(parent1, parent2,
                              Rand(s, k + 1 + 2 * tournamentSize))
       IN mutate(child, s, k + 2 + 2 * tournamentSize)
  ELSE mutate(selectParent(pop, s, k + 1), s, k + 1 + tournamentSize)

\* count passes of the while loop of evolve, one after the other: the
\* chromosomes pushed and the calls of Math.random() so far
RECURSIVE Breed(_, _, _, _)
Breed(pop, count, s, k) ==
  IF count <= 0 THEN [chromosomes |-> <<>>, k |-> k]
  ELSE IF count = 1
  THEN LET m == BreedOne(pop, s, k)
       IN [chromosomes |-> <<m.chromosome>>, k |-> m.k]
  ELSE LET first == Breed(pop, count \div 2, s, k)
           second == Breed(pop, count - count \div 2, s, first.k)
       IN [chromosomes |-> first.chromosomes \o second.chromosomes,
           k |-> second.k]

\* evolve(congestionLevels, emergencyFlags): the new this.population, whose
\* first element is the chromosome returned
evolve(pop, congestionLevels, emergencyFlags, s) ==
  LET scored == ScoredPopulation(pop, congestionLevels, emergencyFlags)
      elite == SubSeq(scored, 1, eliteSize)
  IN elite \o Breed(scored, populationSize - Len(elite), s, 0).chromosomes

NoCall ==
  [n |-> 0, op |-> "none", congestionLevels |-> <<>>, emergencyFlags |-> <<>>]

\* ------------------------------------------------------------------------
\* Specifications
\* ------------------------------------------------------------------------
Init ==
  /\ laneCount = 0
  /\ lanes = <<>>
  /\ isAnalyzing = FALSE
  /\ isOptimizing = FALSE
  /\ generation = 0
  /\ avgWaitTime = 0
  /\ throughput = 0
  /\ currentGreenLane = 0
  /\ showResults = FALSE
  /\ optimizationStartTime = 0
  /\ totalVehiclesAtStart = 0
  /\ gaLaneCount = 0
  /\ pending = [n \in 1..4 |-> 0]
  /\ uploads = 0
  /\ runs = <<>>
  /\ hung = FALSE
  /\ crashed = FALSE
  /\ ticks = 0
  /\ serviceOrder = <<>>
  /\ population = <<>>
  /\ gaCall = NoCall

\* the interactive session: the user and the oracle act inside the input
\* window, every run is followed for MaxCycles cycles
Configure ==
  \E count \in LaneCountChoices :
    InputWindow /\ initializeLanes(count) /\ UNCHANGED gaVars

UploadBudget == uploads < MaxUploads /\ PendingCount < MaxPending

UploadBegin ==
  \E n \in 1..4 :
    /\ InputWindow /\ UploadBudget /\ FileInputShown(n)
    /\ handleImageUploadBegin(n) /\ UNCHANGED gaVars

UploadDone ==
  \E n \in 1..4 : \E a \in Observations :
    InputWindow /\ handleImageUploadDone(n, a) /\ UNCHANGED gaVars

UploadFailed ==
  \E n \in 1..4 :
    InputWindow /\ handleImageUploadFailed(n) /\ UNCHANGED gaVars

Start ==
  InputWindow /\ Len(runs) < MaxStarts /\ startOptimization /\ UNCHANGED gaVars

Reset == InputWindow /\ ResetShown /\ reset /\ UNCHANGED gaVars

NextCycle ==
  \E r \in 1..Len(runs) :
    runs[r].currentGen < MaxCycles /\ CycleTimeout(r) /\ UNCHANGED gaVars

Countdown ==
  \E r \in 1..Len(runs) : \E i \in 1..Len(runs[r].ivs) :
    CountdownTick(r, i) /\ UNCHANGED gaVars

Next ==
  \/ Configure
  \/ UploadBegin
  \/ UploadDone
  \/ UploadFailed
  \/ Start
  \/ Reset
  \/ NextCycle
  \/ Countdown

Spec == Init /\ [][Next]_vars

\* ------------------------------------------------------------------------
\* One undisturbed run: the lanes are configured and observed, Start is
\* clicked once, then only the timers act, up to the generation cap
\* ------------------------------------------------------------------------
RunLaneCounts == {2}

\* the oracle also reports a lane of three vehicles at congestion 1
RunObservations ==
  Observations
    \cup {[vehicleCount |-> 3, hasEmergency |-> FALSE, congestionLevel |-> 1]}

RunConfigure ==
  \E count \in RunLaneCounts :
    runs = <<>> /\ initializeLanes(count) /\ UNCHANGED gaVars

RunUploadBegin ==
  \E n \in 1..4 :
    /\ runs = <<>> /\ UploadBudget /\ FileInputShown(n)
    /\ handleImageUploadBegin(n) /\ UNCHANGED gaVars

RunUploadDone ==
  \E n \in 1..4 : \E a \in RunObservations :
    runs = <<>> /\ handleImageUploadDone(n, a) /\ UNCHANGED gaVars

RunStart == runs = <<>> /\ startOptimization /\ UNCHANGED gaVars

RunCycle == \E r \in 1..Len(runs) : CycleTimeout(r) /\ UNCHANGED gaVars

RunFinal == \E r \in 1..Len(runs) : FinalTimeout(r) /\ UNCHANGED gaVars

RunNext ==
  \/ RunConfigure
  \/ RunUploadBegin
  \/ RunUploadDone
  \/ RunStart
  \/ RunCycle
  \/ Countdown
  \/ RunFinal

RunSpec == Init /\ [][RunNext]_vars

\* ------------------------------------------------------------------------
\* The service order as a function of the lane array: Init draws the
\* array, the one action computes laneOrder
\* ------------------------------------------------------------------------
OrderLaneCounts == {2, 3}

OrderVehicleCounts == {0, 3, 12}

OrderCongestionLevels == {0, 50, 100}

OrderLanes ==
  {LaneData("file", vc, em, cong, "red", 0, 0) :
     vc \in OrderVehicleCounts, em \in BOOLEAN, cong \in OrderCongestionLevels}

OrderInit ==
  /\ \E n \in OrderLaneCounts :
       /\ laneCount = n
       /\ lanes \in [1..n -> OrderLanes]
  /\ isAnalyzing = FALSE
  /\ isOptimizing = FALSE
  /\ generation = 0
  /\ avgWaitTime = 0
  /\ throughput = 0
  /\ currentGreenLane = 0
  /\ showResults = FALSE
  /\ optimizationStartTime = 0
  /\ totalVehiclesAtStart = 0
  /\ gaLaneCount = 0
  /\ pending = [n \in 1..4 |-> 0]
  /\ uploads = 0
  /\ runs = <<>>
  /\ hung = FALSE
  /\ crashed = FALSE
  /\ ticks = 0
  /\ serviceOrder = <<>>
  /\ population = <<>>
  /\ gaCall = NoCall

ComputeOrder ==
  /\ serviceOrder' = laneOrder(lanes)
  /\ UNCHANGED <<laneCount, lanes, isAnalyzing, isOptimizing, generation,
                 avgWaitTime, throughput, currentGreenLane, showResults,
                 optimizationStartTime, totalVehiclesAtStart, gaLaneCount,
                 pending, uploads, runs, hung, crashed, ticks, population,
                 gaCall>>

OrderNext == ComputeOrder

OrderSpec == OrderInit /\ [][OrderNext]_vars

\* ------------------------------------------------------------------------
\* A run, one reset at any moment of it, and a second run: the user
\* configures, uploads and starts while no run is on that was not reset
\* ------------------------------------------------------------------------
NoLiveRun == \A r \in 1..Len(runs) : runs[r].cancelled

RestartConfigure ==
  \E count \in RunLaneCounts :
    NoLiveRun /\ initializeLanes(count) /\ UNCHANGED gaVars

RestartUploadBegin ==
  \E n \in 1..4 :
    /\ NoLiveRun /\ UploadBudget /\ FileInputShown(n)
    /\ handleImageUploadBegin(n) /\ UNCHANGED gaVars

RestartUploadDone ==
  \E n \in 1..4 : \E a \in Observations :
    NoLiveRun /\ handleImageUploadDone(n, a) /\ UNCHANGED gaVars

RestartStart == NoLiveRun /\ startOptimization /\ UNCHANGED gaVars

RestartReset ==
  /\ Len(runs) = 1
  /\ ~runs[1].cancelled
  /\ ResetShown
  /\ reset
  /\ UNCHANGED gaVars

RestartCycle ==
  \E r \in 1..Len(runs) :
    runs[r].currentGen < MaxCycles /\ CycleTimeout(r) /\ UNCHANGED gaVars

RestartCountdown ==
  \E r \in 1..Len(runs) : \E i \in 1..Len(runs[r].ivs) :
    CountdownTick(r, i) /\ UNCHANGED gaVars

RestartNext ==
  \/ RestartConfigure
  \/ RestartUploadBegin
  \/ RestartUploadDone
  \/ RestartStart
  \/ RestartReset
  \/ RestartCycle
  \/ RestartCountdown

RestartSpec == Init /\ [][RestartNext]_vars

\* ------------------------------------------------------------------------
\* One undisturbed run together with its GeneticAlgorithm object: the start
\* calls ga.initialize and the first evolve, every later runCycle calls
\* evolve, each with calls of Math.random() drawn from AdvisoryStreams
\* ------------------------------------------------------------------------
AdvisoryStreams == {<<59>>, <<5, 50, 30, 12, 59, 0, 44>>}

\* lanes.map(lane => lane.congestionLevel)
congestionLevels(ls) == [i \in 1..Len(ls) |-> ls[i].congestionLevel]

\* lanes.map(lane => lane.hasEmergency)
emergencyFlags(ls) == [i \in 1..Len(ls) |-> ls[i].hasEmergency]

\* const best = ga.evolve(congestionLevels, emergencyFlags, vehicleCounts)
\* of the run whose vectors were taken from ls
EvolveCall(pop, ls, s) ==
  /\ population' = evolve(pop, congestionLevels(ls), emergencyFlags(ls), s)
  /\ gaCall' = [n |-> gaCall.n + 1, op |-> "evolve",
                congestionLevels |-> congestionLevels(ls),
                emergencyFlags |-> emergencyFlags(ls)]

AdvisoryUploadDone ==
  \E n \in 1..4 : \E a \in Observations :
    runs = <<>> /\ handleImageUploadDone(n, a) /\ UNCHANGED gaVars

AdvisoryStart ==
  /\ runs = <<>>
  /\ StartEnabled
  /\ IF StartRejected(lanes)
     THEN RejectStart
     ELSE \E s \in AdvisoryStreams :
            /\ EvolveCall(initialize(laneCount, s), lanes, s)
            /\ AcceptStart

AdvisoryCycle ==
  \E r \in 1..Len(runs) : \E s \in AdvisoryStreams :
    /\ runs[r].currentGen < MaxCycles
    /\ Alive
    /\ runs[r].tmoKind = "cycle"
    /\ runs[r].tmoDue = SetMin(Dues(runs))
    /\ IF TotalVehicles(runs[r].snap) = 0
       THEN UNCHANGED gaVars
       ELSE EvolveCall(population, runs[r].snap, s)
    /\ CycleTimeout(r)

AdvisoryNext ==
  \/ RunConfigure
  \/ RunUploadBegin
  \/ AdvisoryUploadDone
  \/ AdvisoryStart
  \/ AdvisoryCycle
  \/ Countdown

AdvisorySpec == Init /\ [][AdvisoryNext]_vars

\* ------------------------------------------------------------------------
\* The GeneticAlgorithm object: initialize, then calls of evolve whose
\* vectors may be shorter or longer than the chromosomes
\* ------------------------------------------------------------------------
GaLaneCounts == {2, 3}

RandomStreams == {<<0>>, <<59>>, <<5, 50, 30, 12, 59, 0, 44>>}

GaCongestionVectors == {<<40, 0>>, <<40, 0, 100>>, <<40>>}

GaFlagVectors == {<<FALSE, TRUE>>, <<FALSE, FALSE, FALSE>>, <<TRUE>>}

GaInitialize ==
  \E count \in GaLaneCounts : \E s \in RandomStreams :
    /\ gaCall.n < MaxGaCalls
    /\ population' = initialize(count, s)
    /\ gaLaneCount' = count
    /\ gaCall' = [NoCall EXCEPT !.n = gaCall.n + 1, !.op = "initialize"]
    /\ UNCHANGED <<laneCount, lanes, isAnalyzing, isOptimizing, generation,
                   avgWaitTime, throughput, currentGreenLane, showResults,
                   optimizationStartTime, totalVehiclesAtStart, pending,
                   uploads, runs, hung, crashed, ticks, serviceOrder>>

GaEvolve ==
  \E c \in GaCongestionVectors : \E f \in GaFlagVectors :
    \E s \in RandomStreams :
      /\ population # <<>>
      /\ gaCall.n < MaxGaCalls
      /\ population' = evolve(population, c, f, s)
      /\ gaCall' = [n |-> gaCall.n + 1, op |-> "evolve",
                    congestionLevels |-> c, emergencyFlags |-> f]
      /\ UNCHANGED <<laneCount, lanes, isAnalyzing, isOptimizing, generation,
                     avgWaitTime, throughput, currentGreenLane, showResults,
                     optimizationStartTime, totalVehiclesAtStart, gaLaneCount,
                     pending, uploads, runs, hung, crashed, ticks,
                     serviceOrder>>

GaNext == GaInitialize \/ GaEvolve

GaSpec == Init /\ [][GaNext]_vars

\* ------------------------------------------------------------------------
\* calculateFitness as a function: Init draws two chromosomes that differ
\* in their first green time only and the two vectors, the one action
\* scores both
\* ------------------------------------------------------------------------
FitnessLaneCounts == {2, 3}

FitnessGreenTimes == {10, 40, 200}

FitnessCongestionLevels == {0, 100}

FitnessInit ==
  /\ \E count \in FitnessLaneCounts :
       /\ gaLaneCount = count
       /\ \E rest \in [1..(count - 1) -> FitnessGreenTimes] :
            \E t1, t2 \in FitnessGreenTimes :
              population = <<[greenTimes |-> <<t1>> \o rest, fitness |-> 0],
                             [greenTimes |-> <<t2>> \o rest, fitness |-> 0]>>
       /\ \E c \in [1..count -> FitnessCongestionLevels] :
            \E f \in [1..count -> BOOLEAN] :
              gaCall = [NoCall EXCEPT !.congestionLevels = c,
                                      !.emergencyFlags = f]
  /\ laneCount = 0
  /\ lanes = <<>>
  /\ isAnalyzing = FALSE
  /\ isOptimizing = FALSE
  /\ generation = 0
  /\ avgWaitTime = 0
  /\ throughput = 0
  /\ currentGreenLane = 0
  /\ showResults = FALSE
  /\ optimizationStartTime = 0
  /\ totalVehiclesAtStart = 0
  /\ pending = [n \in 1..4 |-> 0]
  /\ uploads = 0
  /\ runs = <<>>
  /\ hung = FALSE
  /\ crashed = FALSE
  /\ ticks = 0
  /\ serviceOrder = <<>>

ScorePair ==
  /\ gaCall.op = "none"
  /\ population' =
       [j \in 1..Len(population) |->
          [population[j] EXCEPT !.fitness =
             calculateFitness(population[j], gaCall.congestionLevels,
                              gaCall.emergencyFlags)]]
  /\ gaCall' = [gaCall EXCEPT !.n = 1, !.op = "calculateFitness"]
  /\ UNCHANGED <<laneCount, lanes, isAnalyzing, isOptimizing, generation,
                 avgWaitTime, throughput, currentGreenLane, showResults,
                 optimizationStartTime, totalVehiclesAtStart, gaLaneCount,
                 pending, uploads, runs, hung, crashed, ticks, serviceOrder>>

FitnessNext == ScorePair

FitnessSpec == FitnessInit /\ [][FitnessNext]_vars

\* ------------------------------------------------------------------------
\* calculateFitness over the thresholds of its terms: Init draws one
\* chromosome of one or two lanes and the two vectors, the one action
\* scores it
\* ------------------------------------------------------------------------
ThresholdLaneCounts == {1, 2}

ThresholdGreenTimes ==
  {14, 15, 19, 20, 24, 25, 39, 40, 60, 70, 71, 85, 90, 91, 200, 250}

ThresholdCongestionLevels == {0, 50, 100}

ThresholdInit ==
  /\ \E count \in ThresholdLaneCounts :
       /\ gaLaneCount = count
       /\ \E gt \in [1..count -> ThresholdGreenTimes] :
            population = <<[greenTimes |-> gt, fitness |-> 0]>>
       /\ \E c \in [1..count -> ThresholdCongestionLevels] :
            \E f \in [1..count -> BOOLEAN] :
              gaCall = [NoCall EXCEPT !.congestionLevels = c,
                                      !.emergencyFlags = f]
  /\ laneCount = 0
  /\ lanes = <<>>
  /\ isAnalyzing = FALSE
  /\ isOptimizing = FALSE
  /\ generation = 0
  /\ avgWaitTime = 0
  /\ throughput = 0
  /\ currentGreenLane = 0
  /\ showResults = FALSE
  /\ optimizationStartTime = 0
  /\ totalVehiclesAtStart = 0
  /\ pending = [n \in 1..4 |-> 0]
  /\ uploads = 0
  /\ runs = <<>>
  /\ hung = FALSE
  /\ crashed = FALSE
  /\ ticks = 0
  /\ serviceOrder = <<>>

ThresholdSpec == ThresholdInit /\ [][FitnessNext]_vars

\* ------------------------------------------------------------------------
\* Properties
\* ------------------------------------------------------------------------
Greens(ls) == {i \in 1..Len(ls) : IsObj(ls[i]) /\ ls[i].signalState = "green"}

AllCleared(ls) == \A i \in 1..Len(ls) : IsObj(ls[i]) => ls[i].vehicleCount = 0

\* a timer callback of the run r
TimerCallback(r) ==
  \/ CycleTimeout(r)
  \/ FinalTimeout(r)
  \/ \E i \in 1..Len(runs[r].ivs) : CountdownTick(r, i)

\* C1: in the computed service order every lane with hasEmergency = true
\* and vehicleCount > 0 is present and stands before every lane without an
\* emergency, whatever the congestion levels are
C1_EmergencyPrecedence ==
  /\ \A p, q \in 1..Len(serviceOrder) :
       /\ lanes[serviceOrder[p].idx].hasEmergency
       /\ ~lanes[serviceOrder[q].idx].hasEmergency
       => p < q
  /\ serviceOrder # <<>> =>
       \A i \in 1..Len(lanes) :
         lanes[i].hasEmergency /\ lanes[i].vehicleCount > 0
         => FindIndex(serviceOrder, i) # 0

\* an emergency lane at congestion 0 has been placed before a lane without
\* emergency at congestion 100 that has a smaller lane number
C1_Witness ==
  \E p, q \in 1..Len(serviceOrder) :
    /\ p < q
    /\ serviceOrder[p].idx > serviceOrder[q].idx
    /\ lanes[serviceOrder[p].idx].hasEmergency
    /\ lanes[serviceOrder[p].idx].congestionLevel = 0
    /\ ~lanes[serviceOrder[q].idx].hasEmergency
    /\ lanes[serviceOrder[q].idx].congestionLevel = 100

\* C2: in every reachable state at most one lane has signalState = green
C2_AtMostOneGreen == Cardinality(Greens(lanes)) <= 1

\* a run is on, one lane is green and another one is yellow
C2_Witness ==
  /\ isOptimizing
  /\ Cardinality(Greens(lanes)) = 1
  /\ \E j \in 1..Len(lanes) : IsObj(lanes[j]) /\ lanes[j].signalState = "yellow"

\* C3: in every reachable state a lane whose vehicleCount is 0 is not green
C3_EmptyLaneNeverGreen ==
  \A i \in Greens(lanes) : lanes[i].vehicleCount # 0

\* C4: a run begun by an accepted start that has come to its end (the
\* thread is stuck, or the run has no timer left) has emitted the terminal
\* event and left every lane with vehicleCount = 0
C4_RunEndsAllCleared ==
  (hung \/ (runs # <<>> /\ Dues(runs) = {}))
  => (showResults /\ AllCleared(lanes))

\* C5: a cycle of a run that no reset has interrupted, starting while the
\* lanes' current vehicle counts sum to 0, grants no green, leaves no timer, clears isOptimizing and emits the
\* terminal event
C5_EmptyCycleStops ==
  [][(/\ NextCycle
       /\ \A r \in 1..Len(runs) : ~runs[r].cancelled
       /\ TotalVehicles(lanes) = 0)
     => (Greens(lanes) = {} /\ Dues(runs) = {}
         /\ ~isOptimizing /\ showResults)']_vars

\* C6: without a reset the scheduler never stops (isOptimizing false, no
\* next cycle scheduled) while a lane still has vehicleCount > 0
C6_CapNeverEndsLoadedRun ==
  (runs # <<>> /\ ~isOptimizing /\ LiveTimeouts(runs) = {})
  => AllCleared(lanes)

\* C7: after reset no timer callback of a run started before it changes a
\* lane field or a metric
C7_NoCallbackAfterReset ==
  [][(\E r \in 1..Len(runs) : runs[r].cancelled /\ TimerCallback(r))
     => UNCHANGED <<lanes, generation, avgWaitTime, throughput,
                    currentGreenLane, isOptimizing, showResults>>]_vars

\* the state reset is to leave
DefaultState ==
  /\ laneCount = 0
  /\ lanes = <<>>
  /\ generation = 0
  /\ avgWaitTime = 0
  /\ throughput = 0
  /\ currentGreenLane = 0
  /\ ~isOptimizing
  /\ ~showResults

\* C8: whatever the state reset is called in, the state right after it is
\* the default state (so a reset of that state would change nothing)
C8_ResetGivesDefault == [][Reset => DefaultState']_vars

\* reset has been called in the middle of a cycle: the default state, with
\* the timers of the run still pending
C8_Witness ==
  /\ DefaultState
  /\ \E r \in 1..Len(runs) : runs[r].cancelled /\ runs[r].ivs # <<>>

\* C9: at most one timeout of a cycle runner and at most one countdown are
\* live at any time
C9_SingleTimerChain ==
  /\ Cardinality(LiveTimeouts(runs)) <= 1
  /\ Cardinality(LiveIntervals(runs)) <= 1

\* C10: a start with no observed lane, or with a total vehicle count of 0,
\* creates no timer, does not initialize the GA and changes no lane, no
\* metric and not isOptimizing
C10_RejectedStartNoChange ==
  [][(Start /\ (\/ \A i \in Visited(lanes) : lanes[i].image = "null"
                \/ TotalVehicles(lanes) = 0))
     => UNCHANGED vars]_vars

\* Start can be clicked while the observed lanes hold no vehicle
C10_Witness ==
  /\ StartEnabled
  /\ Len(runs) < MaxStarts
  /\ \E i \in Visited(lanes) : lanes[i].image = "file"
  /\ TotalVehicles(lanes) = 0

\* C11: at every countdown tick the vehicleCount of a green lane is not
\* negative and not larger than it was before the tick
C11_GreenCountNeverRises ==
  [][Countdown
     => \A i \in Greens(lanes) :
          /\ lanes'[i].vehicleCount >= 0
          /\ lanes'[i].vehicleCount <= lanes[i].vehicleCount]_vars

\* C12: at every countdown tick that drains a green lane whose phase began
\* at a congestion > 0, congestionLevel does not rise and is 0 exactly when
\* vehicleCount is 0
C12_CongestionFollowsCount ==
  [][\A r \in 1..Len(runs) : \A k \in 1..Len(runs[r].ivs) :
       (/\ CountdownTick(r, k)
        /\ DrainsGreen(lanes, runs[r].ivs[k])
        /\ runs[r].ivs[k].initialCongestion > 0)
       => LET j == runs[r].ivs[k].currentLaneIdx
          IN /\ lanes'[j].congestionLevel <= lanes[j].congestionLevel
             /\ (lanes'[j].congestionLevel = 0) <=> (lanes'[j].vehicleCount = 0)]_vars

\* C13: when the countdown of a phase has reached zero before the allotted
\* green time is over (the phase was cut short), the lane of the phase has
\* given up green
C13_CutPhaseGivesUpGreen ==
  \A r \in 1..Len(runs) :
    (runs[r].tmoKind = "cycle" /\ runs[r].ivs = <<>> /\ runs[r].tmoDue > 0)
    => currentGreenLane \notin Greens(lanes)

\* an evolve call has just returned
EvolveDone == gaCall.op = "evolve"

\* the step is a call of evolve
EvolveStep == gaCall'.n = gaCall.n + 1 /\ gaCall'.op = "evolve"

\* C14: once initialize(laneCount) has run, and after any number of evolve
\* calls, the population has populationSize chromosomes and each greenTimes
\* has length laneCount
C14_PopulationShape ==
  population # <<>>
  => /\ Len(population) = populationSize
     /\ \A j \in 1..Len(population) :
          Len(population[j].greenTimes) = gaLaneCount

\* an evolve call has put children made by crossover behind the elite
C14_Witness ==
  /\ EvolveDone
  /\ Len(population) = populationSize
  /\ \E j \in (eliteSize + 1)..Len(population) : population[j].fitness = 0

\* C15: an evolve call whose vectors give every chromosome a score returns
\* (as the first member of the new population) a chromosome of the prior
\* generation with its greenTimes as they were and with a score that no
\* chromosome of the prior generation exceeds, and the first eliteSize
\* members of the new population are the eliteSize best-scored chromosomes
\* of the prior generation, best first
C15_Elitism ==
  [][(EvolveStep /\ Len(gaCall'.congestionLevels) >= gaLaneCount)
     => \A score \in {[j \in 1..Len(population) |->
                         calculateFitness(population[j],
                                          gaCall'.congestionLevels,
                                          gaCall'.emergencyFlags)] \o <<>>} :
          /\ \A j \in 1..Len(population) :
               population'[1].fitness >= score[j]
          /\ \A e \in 1..eliteSize :
               /\ \E j \in 1..Len(population) :
                    /\ population'[e].greenTimes = population[j].greenTimes
                    /\ population'[e].fitness = score[j]
               /\ Cardinality({j \in 1..Len(population) :
                                 score[j] > population'[e].fitness}) <= e - 1
               /\ e > 1 => population'[e - 1].fitness >= population'[e].fitness
      ]_vars

\* an evolve call with vectors of the lane count has returned, and the elite
\* it kept holds chromosomes of different scores
C15_Witness ==
  /\ EvolveDone
  /\ Len(gaCall.congestionLevels) = gaLaneCount
  /\ Len(gaCall.emergencyFlags) = gaLaneCount
  /\ population[1].fitness > population[eliteSize].fitness

\* C16: of two chromosomes that differ in the green time of lane 0 only,
\* lane 0 being flagged emergency, the one with 40 there scores strictly
\* higher than the one with 10
C16_EmergencyGreenOrdering ==
  (/\ gaCall.op = "calculateFitness"
   /\ gaCall.emergencyFlags[1]
   /\ population[1].greenTimes[1] = 10
   /\ population[2].greenTimes[1] = 40)
  => population[2].fitness > population[1].fitness

\* such a pair has been scored, with another emergency lane and a cycle
\* longer than maxCycleTime
C16_Witness ==
  /\ gaCall.op = "calculateFitness"
  /\ gaCall.emergencyFlags[1]
  /\ gaCall.emergencyFlags[2]
  /\ population[1].greenTimes[1] = 10
  /\ population[2].greenTimes[1] = 40
  /\ SumSeq(population[2].greenTimes) > 400

\* C17: an evolve call whose congestionLevels or emergencyFlags are not of
\* the length of the chromosomes fails: it leaves the population as it was
C17_MismatchedVectorsFail ==
  [][(/\ EvolveStep
      /\ \/ Len(gaCall'.congestionLevels) # gaLaneCount
         \/ Len(gaCall'.emergencyFlags) # gaLaneCount)
     => population' = population]_vars

C19_ObservationInstalled ==
  [][\A n \in 1..4 : \A a \in Observations :
       (InputWindow /\ handleImageUploadDone(n, a))
       => /\ lanes'[n].vehicleCount = a.vehicleCount
          /\ lanes'[n].hasEmergency = a.hasEmergency
          /\ lanes'[n].congestionLevel = a.congestionLevel
          /\ lanes'[n].signalState = "red"
          /\ lanes'[n].waitingTime = 0
          /\ lanes'[n].greenDuration = 0
          /\ \A i \in 1..Len(lanes) :
               (i # n /\ IsObj(lanes[i])) => lanes'[i] = lanes[i]
          /\ UNCHANGED <<generation, avgWaitTime, throughput,
                         currentGreenLane>>]_vars

\* in the middle of a run a lane holds a fresh observation of five vehicles
\* next to the green lane
C19_Witness ==
  /\ isOptimizing
  /\ Dues(runs) # {}
  /\ generation > 0
  /\ \E n \in 1..Len(lanes) :
       /\ lanes[n] = LaneData("file", 5, FALSE, 40, "red", 0, 0)
       /\ \E i \in Greens(lanes) : i # n

\* C20: no timer callback (the timeout of a cycle runner, a countdown tick)
\* leaves generation or throughput lower than it found it
C20_MetricsNeverLowered ==
  [][(RestartCycle \/ RestartCountdown)
     => /\ generation' >= generation
        /\ throughput' >= throughput]_vars

\* C21: every cycle a timeout starts while evolve returns some chromosome
\* writes the signal states, green durations, waiting times and vehicle
\* counts, and sets the timers, that the lanes the run works on determine
\* alone; two runs from the same lane state that differ in the calls of
\* Math.random() only therefore show the same sequence of lane states
C21_GaIsAdvisory ==
  [][\A r \in 1..Len(runs) :
       (/\ gaCall'.n = gaCall.n + 1
        /\ Len(runs') = Len(runs)
        /\ runs'[r].currentGen = runs[r].currentGen + 1)
       => \A order \in {laneOrder(runs[r].snap)} :
            /\ lanes' = CycleLanes(lanes, runs[r].snap, order,
                                   runs[r].cycleIndex)
            /\ runs'[r].tmoDue = At(order, runs[r].cycleIndex).greenTime
            /\ runs'[r].ivs[Len(runs'[r].ivs)]
                 = NewInterval(runs[r].snap, order, runs[r].cycleIndex)]_vars

\* the second evolve call after the start has returned a chromosome whose
\* green time for the lane served is not the green time granted
C21_Witness ==
  /\ gaCall.op = "evolve"
  /\ gaCall.n >= 2
  /\ \E r \in 1..Len(runs) :
       /\ runs[r].tmoKind = "cycle"
       /\ runs[r].ivs # <<>>
       /\ runs[r].ivs[Len(runs[r].ivs)].remainingTime
            = runs[r].ivs[Len(runs[r].ivs)].currentGreenTime
       /\ population[1].greenTimes[currentGreenLane]
            # runs[r].ivs[Len(runs[r].ivs)].currentGreenTime

\* the lanes of a service order
OrderLaneSet(order) == {order[p].idx : p \in 1..Len(order)}

\* the lanes that hold vehicles
Loaded(ls) == {i \in 1..Len(ls) : IsObj(ls[i]) /\ ls[i].vehicleCount > 0}

\* the timeout of run r starts a cycle in this step
CycleStarts(r) ==
  /\ Len(runs') = Len(runs)
  /\ runs'[r].currentGen = runs[r].currentGen + 1

\* C22: the service order a cycle computes at its start holds exactly the
\* lanes whose vehicleCount is > 0 at that moment
C22_OrderFromCurrentLanes ==
  [][\A r \in 1..Len(runs) :
       (RunCycle /\ CycleStarts(r))
       => OrderLaneSet(serviceOrder') = Loaded(lanes)]_vars

\* the countdown k of run r reaches zero in this step
CountdownEnds(r, k) ==
  /\ CountdownTick(r, k)
  /\ Len(runs'[r].ivs) < Len(runs[r].ivs)

\* the lane q positions after lane i in the service order, wrapping around
LaneAfter(order, i, q) == At(order, FindIndex(order, i) - 1 + q).idx

\* C23: when the countdown of the cycle that serves position p of the
\* service order reaches zero, the lane at position p + 1 is the green one
\* and the lane at position p + 2, if it is another one, is yellow
C23_RotationToNextLane ==
  [][\A r \in 1..Len(runs) : \A k \in 1..Len(runs[r].ivs) :
       CountdownEnds(r, k)
       => \A order \in {laneOrder(runs[r].snap)} :
            \A cur \in {runs[r].ivs[k].currentLaneIdx} :
              /\ Greens(lanes') = {LaneAfter(order, cur, 1)}
              /\ LaneAfter(order, cur, 2) # LaneAfter(order, cur, 1)
                 => lanes'[LaneAfter(order, cur, 2)].signalState = "yellow"]_vars

\* run r of the next state has begun a cycle in this step (the first one,
\* called by startOptimization, or one called by its timeout)
CycleBegun(r) ==
  \/ r > Len(runs)
  \/ r <= Len(runs) /\ runs'[r].currentGen = runs[r].currentGen + 1

\* C24: the cycle a run that has not been reset begins at index k of its
\* service order leaves, among the laneCount lanes of the intersection, the
\* lane at position k mod len green, the lane at the following position
\* yellow when it is a different lane, and every other lane red
C24_CycleStartSignals ==
  [][\A r \in 1..Len(runs') :
       (CycleBegun(r) /\ ~runs'[r].cancelled)
       => \A cur \in {At(serviceOrder', runs'[r].cycleIndex - 1).idx} :
            \A next \in {At(serviceOrder', runs'[r].cycleIndex).idx} :
              /\ Greens(lanes') = {cur}
              /\ \A i \in 1..laneCount :
                   i # cur
                   => lanes'[i].signalState
                        = IF i = next THEN "yellow" ELSE "red"]_vars

\* a cycle has just begun on three lanes: one is green, the next one in the
\* service order is yellow and the third one is red
C24_Witness ==
  /\ \E r \in 1..Len(runs) :
       /\ ~runs[r].cancelled
       /\ runs[r].ivs # <<>>
       /\ runs[r].ivs[Len(runs[r].ivs)].remainingTime
            = runs[r].ivs[Len(runs[r].ivs)].currentGreenTime
  /\ Len(serviceOrder) >= 2
  /\ laneCount >= 3
  /\ Len(lanes) = laneCount
  /\ Cardinality(Greens(lanes)) = 1
  /\ \E i, j \in 1..Len(lanes) :
       /\ IsObj(lanes[i]) /\ lanes[i].signalState = "yellow"
       /\ IsObj(lanes[j]) /\ lanes[j].signalState = "red"

\* ceil(vehicleCount * clearanceRatio), clearanceRatio 3/4 for an emergency
\* lane and 2/4 for a regular lane
VehiclesToClear(vehicleCount, hasEmergency) ==
  CeilDiv(vehicleCount * (IF hasEmergency THEN 3 ELSE 2), 4)

\* the countdown the cycle begun in this step has installed for run r
BegunInterval(r) == runs'[r].ivs[Len(runs'[r].ivs)]

CountdownBegun(r) ==
  /\ CycleBegun(r)
  /\ ~runs'[r].cancelled
  /\ Len(runs'[r].ivs) > (IF r > Len(runs) THEN 0 ELSE Len(runs[r].ivs))

GreenFloor(isEmergency) == IF isEmergency THEN 20 ELSE 10

\* C26: every entry of the service order has greenTime = max(floor,
\* vehiclesToClear * timePerVehicle), with 2 s per vehicle and a floor of
\* 20 s for an emergency lane, 3 s per vehicle and a floor of 10 s for a
\* regular lane
C26_GreenTime ==
  \A p \in 1..Len(serviceOrder) :
    \A e \in {serviceOrder[p]} :
      e.greenTime = Max(GreenFloor(e.isEmergency),
                        e.halfVehicles * (IF e.isEmergency THEN 2 ELSE 3))

\* C26 as amended: every entry of the service order has greenTime =
\* max(floor, ceil(vehicleCount / 2) * timePerVehicle), with 2 s per vehicle
\* and a floor of 15 s for an emergency lane, 3 s per vehicle and a floor of
\* 10 s for a regular lane
C26_GreenTimeFloor15 ==
  \A p \in 1..Len(serviceOrder) :
    \A e \in {serviceOrder[p]} :
      /\ e.isEmergency = lanes[e.idx].hasEmergency
      /\ e.greenTime
           = Max(IF e.isEmergency THEN 15 ELSE 10,
                 CeilDiv(lanes[e.idx].vehicleCount, 2)
                   * (IF e.isEmergency THEN 2 ELSE 3))

\* the service order holds an emergency lane kept at its floor and a regular
\* lane whose clearance time exceeds its floor
C26_Witness ==
  \E p, q \in 1..Len(serviceOrder) :
    /\ serviceOrder[p].isEmergency
    /\ serviceOrder[p].halfVehicles = 6
    /\ serviceOrder[p].greenTime = 15
    /\ ~serviceOrder[q].isEmergency
    /\ serviceOrder[q].greenTime = 18

\* the position (1-based) of the service order that lies k places after
\* position pos, wrapping around
PlacesAfter(order, pos, k) == ((pos - 1 + k) % Len(order)) + 1

\* the number of places from position pos forward to position q
PlacesBetween(order, pos, q) == (q - pos + Len(order)) % Len(order)

\* the sum of greenTime over the entries first..last places after pos
GreenTimeSum(order, pos, first, last) ==
  SumSeq([k \in 1..(last - first + 1) |->
            order[PlacesAfter(order, pos, first + k - 1)].greenTime])

\* the waiting times a cycle begun in this step by a run that was not reset
\* has written: 0 for the lane it serves, and for every other lane of the
\* service order the greenTime of the entries from..(d - 1) places after
\* the current position, d being the places up to that lane's position
WaitingTimesFrom(from) ==
  \A r \in 1..Len(runs') :
    (CycleBegun(r) /\ ~runs'[r].cancelled)
    => \A order \in {serviceOrder'} :
         \A pos \in {PlacesAfter(order, 1, runs'[r].cycleIndex - 1)} :
           \A q \in 1..Len(order) :
             lanes'[order[q].idx].waitingTime
               = IF q = pos THEN 0
                 ELSE GreenTimeSum(order, pos, from,
                                   PlacesBetween(order, pos, q) - 1)

\* C27: at each cycle start the waitingTime of every non-active lane of the
\* service order is the sum of greenTime over the entries strictly between
\* the current position and that lane's position, wrapping around, and the
\* waitingTime of the active lane is 0
C27_WaitStrictlyBetween == [][WaitingTimesFrom(1)]_vars

\* C27 as amended: at each cycle start the waitingTime of every non-active
\* lane of the service order is the sum of greenTime over the entries from
\* the current position, included, up to that lane's position, excluded,
\* wrapping around, and the waitingTime of the active lane is 0
C27_WaitFromCurrent == [][WaitingTimesFrom(0)]_vars

\* a cycle has begun on three loaded lanes: the lane served waits 0, the
\* next one the green time of the lane served, the third one the green
\* times of both
C27_Witness ==
  /\ Len(serviceOrder) = 3
  /\ \E r \in 1..Len(runs) : \E k \in 1..Len(runs[r].ivs) :
       /\ ~runs[r].cancelled
       /\ runs[r].ivs[k].remainingTime = runs[r].ivs[k].currentGreenTime
       /\ \E p \in 1..3 :
            /\ serviceOrder[p].idx = runs[r].ivs[k].currentLaneIdx
            /\ lanes[serviceOrder[p].idx].waitingTime = 0
            /\ lanes[serviceOrder[PlacesAfter(serviceOrder, p, 1)].idx].waitingTime
                 = serviceOrder[p].greenTime
            /\ lanes[serviceOrder[PlacesAfter(serviceOrder, p, 2)].idx].waitingTime
                 = serviceOrder[p].greenTime
                   + serviceOrder[PlacesAfter(serviceOrder, p, 1)].greenTime

\* C28: the tick that ends second t of a green phase leaves the lane being
\* served, while it is green, with max(0, initialVehicleCount - floor(t /
\* timePerVehicle)) vehicles, t being the seconds that have elapsed since
\* the phase began, also after the early exit has shortened the countdown
C28_CountFollowsElapsedSeconds ==
  [][\A r \in 1..Len(runs) : \A k \in 1..Len(runs[r].ivs) :
       \A iv \in {runs[r].ivs[k]} :
         (CountdownTick(r, k) /\ ~crashed' /\ DrainsGreen(lanes, iv))
         => \A t \in {iv.elapsedSeconds + 1} :
              lanes'[iv.currentLaneIdx].vehicleCount
                = Max(0, iv.initialVehicleCount
                           - (t \div (IF lanes[iv.currentLaneIdx].hasEmergency
                                      THEN 2 ELSE 3)))]_vars

\* the fields of a lane a countdown tick must leave alone in a lane that is
\* not the green lane it serves
Untouched(l) ==
  <<l.kind, l.image, l.vehicleCount, l.hasEmergency, l.congestionLevel,
    l.greenDuration>>

\* C29: a countdown tick changes vehicleCount and congestionLevel of no lane
\* but the green lane it serves; in every other lane it changes nothing but
\* waitingTime, which goes down by 1 and stays at 0 once it is 0, so that
\* it never becomes negative (signalState changes only in the tick that
\* ends the countdown, by the rotation)
C29_TickFrame ==
  [][\A r \in 1..Len(runs) : \A k \in 1..Len(runs[r].ivs) :
       \A iv \in {runs[r].ivs[k]} :
         (CountdownTick(r, k) /\ \A j \in 1..Len(lanes) : lanes[j].kind # "undef")
         => /\ Len(lanes') = Len(lanes)
            /\ \A i \in 1..Len(lanes) :
                 (i # iv.currentLaneIdx \/ ~DrainsGreen(lanes, iv))
                 => /\ Untouched(lanes'[i]) = Untouched(lanes[i])
                    /\ lanes'[i].waitingTime
                         = IF lanes[i].waitingTime = Undef THEN Undef
                           ELSE Max(0, lanes[i].waitingTime - 1)
                    /\ lanes[i].waitingTime >= 0 => lanes'[i].waitingTime >= 0
                    /\ Len(runs'[r].ivs) = Len(runs[r].ivs)
                       => lanes'[i].signalState = lanes[i].signalState]_vars

\* a countdown is ticking while a lane that is not green has waited down to
\* 0 and another one is still waiting
C29_Witness ==
  /\ \E r \in 1..Len(runs) : \E k \in 1..Len(runs[r].ivs) :
       /\ runs[r].ivs[k].elapsedSeconds > 0
       /\ DrainsGreen(lanes, runs[r].ivs[k])
  /\ \E i, j \in 1..Len(lanes) :
       /\ IsObj(lanes[i]) /\ lanes[i].signalState # "green"
       /\ lanes[i].waitingTime = 0
       /\ IsObj(lanes[j]) /\ lanes[j].signalState # "green"
       /\ lanes[j].waitingTime > 0

\* the countdowns of runs that were not reset which serve lane i while it
\* is green
ActiveCountdowns(i) ==
  {iv \in UNION {{runs[r].ivs[k] : k \in 1..Len(runs[r].ivs)} :
                   r \in {q \in 1..Len(runs) : ~runs[q].cancelled}} :
     iv.currentLaneIdx = i /\ DrainsGreen(lanes, iv)}

\* C30: in every state of a run greenDuration is the remaining seconds of
\* the current green phase for the active green lane and 0 for every lane
\* that is not the active green lane
C30_GreenDurationZeroForOthers ==
  \A i \in 1..Len(lanes) :
    (isOptimizing /\ IsObj(lanes[i]))
    => IF ActiveCountdowns(i) = {}
       THEN lanes[i].greenDuration = 0
       ELSE \E iv \in ActiveCountdowns(i) :
              lanes[i].greenDuration = iv.remainingTime

\* C30 as amended, at a cycle start: every lane of the service order gets
\* the green time the cycle allocates to it, which for the lane served is
\* the whole of the green phase that begins
GreenDurationAtCycleStart ==
  \A r \in 1..Len(runs') :
    CountdownBegun(r)
    => /\ \A q \in 1..Len(serviceOrder') :
            lanes'[serviceOrder'[q].idx].greenDuration
              = serviceOrder'[q].greenTime
       /\ lanes'[BegunInterval(r).currentLaneIdx].greenDuration
            = BegunInterval(r).remainingTime

\* C30 as amended, at a tick: the green lane served gets the seconds that
\* remain of its phase, 0 when the countdown ends, and every other lane
\* keeps its greenDuration
GreenDurationAtTick ==
  \A r \in 1..Len(runs) : \A k \in 1..Len(runs[r].ivs) :
    \A iv \in {runs[r].ivs[k]} :
      (CountdownTick(r, k) /\ \A j \in 1..Len(lanes) : lanes[j].kind # "undef")
      => \A i \in 1..Len(lanes) :
           lanes'[i].greenDuration
             = IF i = iv.currentLaneIdx /\ DrainsGreen(lanes, iv)
               THEN IF Len(runs'[r].ivs) = Len(runs[r].ivs)
                    THEN runs'[r].ivs[k].remainingTime ELSE 0
               ELSE lanes[i].greenDuration

\* C30 as amended: greenDuration is the remaining seconds of the current
\* green phase for the active green lane, and for every other lane of the
\* service order it is the green time the cycle start allocated to that
\* lane, which the ticks leave unchanged
C30_GreenDurationAllocated ==
  [][GreenDurationAtCycleStart /\ GreenDurationAtTick]_vars

\* a green phase has been ticking: the lane served shows the seconds that
\* remain of it and a lane that waits shows the green time allocated to it
C30_Witness ==
  \E i, j \in 1..Len(lanes) :
    /\ i # j
    /\ \E iv \in ActiveCountdowns(i) :
         /\ iv.remainingTime < iv.currentGreenTime
         /\ lanes[i].greenDuration = iv.remainingTime
    /\ IsObj(lanes[j]) /\ lanes[j].signalState # "green"
    /\ \E q \in 1..Len(serviceOrder) :
         /\ serviceOrder[q].idx = j
         /\ lanes[j].greenDuration = serviceOrder[q].greenTime

\* two places of the service order that hold lanes of equal emergency status
SameStatus(p, q) ==
  lanes[serviceOrder[p].idx].hasEmergency
    = lanes[serviceOrder[q].idx].hasEmergency

\* the places p < q of the service order stand in descending order of key,
\* and in lane-index order where the keys are equal
DescendingThenIndex(key(_), p, q) ==
  /\ key(serviceOrder[p].idx) >= key(serviceOrder[q].idx)
  /\ key(serviceOrder[p].idx) = key(serviceOrder[q].idx)
     => serviceOrder[p].idx < serviceOrder[q].idx

\* congestionLevel of lane i
LaneCongestion(i) == lanes[i].congestionLevel

\* priority of lane i: 100000 for an emergency lane, else congestionLevel
LanePriority(i) ==
  IF lanes[i].hasEmergency THEN 100000 ELSE lanes[i].congestionLevel

LoadedLanes(ls) == {i \in 1..Len(ls) : IsObj(ls[i]) /\ ls[i].vehicleCount > 0}

\* the rounded mean of waitingTime over the lanes of ls that hold vehicles
MeanWaitOfLoaded(ls) ==
  RoundDiv(SumSeq([i \in 1..Len(ls) |->
                     IF i \in LoadedLanes(ls) THEN ls[i].waitingTime ELSE 0]),
           Cardinality(LoadedLanes(ls)))

\* C32: the avgWaitTime a cycle start publishes is the rounded mean of the
\* waitingTime of the lanes that have vehicleCount > 0; a lane without
\* vehicles enters neither the sum nor the denominator
C32_MeanOverLoadedLanes ==
  [][\A r \in 1..Len(runs') :
       (CountdownBegun(r) /\ LoadedLanes(lanes') # {})
       => avgWaitTime' = MeanWaitOfLoaded(lanes')]_vars

\* the sum of term(i) over the lanes 1..n
RECURSIVE SumOver(_, _)
SumOver(term(_), n) == IF n = 0 THEN 0 ELSE term(n) + SumOver(term, n - 1)

\* the reference formula of the fitness of green times gt under congestion
\* levels c and emergency flags f, in units of 1 / FitnessScale: each of
\* its six terms summed over the lanes on its own
ReferenceFitness(gt, c, f) ==
  LET any == TRUE \in {f[i] : i \in 1..Len(f)}
      total == SumOver(LAMBDA i : gt[i], Len(gt))
      EmergencyBonus(i) ==
        IF ~f[i] THEN 0
        ELSE 30 * gt[i] + 500
             + (IF gt[i] < 25 THEN 0 ELSE 200)
             + (IF gt[i] < 40 THEN 0 ELSE 300)
      Preemption(i) == IF ~f[i] /\ any THEN 0 - 5 * gt[i] ELSE 0
      \* gt * (c / 100) * 0.5 = gt * c / 200, gt * (c / 100) * 2 = gt * c / 50
      CongestionScaled(i) ==
        IF any THEN gt[i] * c[i] * (FitnessScale \div 200)
        ELSE gt[i] * c[i] * (FitnessScale \div 50)
      Range(i) ==
        IF f[i] THEN 0
        ELSE IF gt[i] \in 20..70 THEN 10
        ELSE IF gt[i] \in 15..90 THEN 0
        ELSE 0 - 50
      \* 0.15 < gt / total < 0.4
      Fairness(i) ==
        IF ~any /\ 20 * gt[i] > 3 * total /\ 5 * gt[i] < 2 * total
        THEN 15 ELSE 0
      over == total - (IF any THEN 400 ELSE 300)
  IN FitnessScale * (SumOver(EmergencyBonus, Len(gt))
                     + SumOver(Preemption, Len(gt))
                     + SumOver(Range, Len(gt))
                     + SumOver(Fairness, Len(gt)))
     + SumOver(CongestionScaled, Len(gt))
     - (IF over > 0 THEN over * (FitnessScale \div 2) ELSE 0)

\* C33: the fitness calculateFitness gives a chromosome is the value of the
\* reference formula for its green times and the congestion and emergency
\* vectors of the call, and the call leaves the green times of the
\* chromosome as they were
C33_FitnessIsReference ==
  [][ScorePair
     => \A j \in 1..Len(population) :
          /\ population'[j].greenTimes = population[j].greenTimes
          /\ population'[j].fitness
               = ReferenceFitness(population[j].greenTimes,
                                  gaCall.congestionLevels,
                                  gaCall.emergencyFlags)]_vars

\* a chromosome has been scored that gives an emergency lane 250 s and a
\* regular lane at congestion 50 exactly 70 s
C33_Witness ==
  /\ gaCall.op = "calculateFitness"
  /\ population[1].greenTimes = <<250, 70>>
  /\ gaCall.emergencyFlags = <<TRUE, FALSE>>
  /\ gaCall.congestionLevels = <<100, 50>>
  /\ population[1].fitness = FitnessScale * (8500 - 350 + 10) + 250 * 100 + 70 * 50

\* C34: no step leaves the thread spinning in the loop that computes the
\* waiting times of a cycle: the loop ends for every lane, also for a lane
\* with vehicleCount = 0 that is not in the service order
C34_WaitTimesTerminate == [][~hung']_vars

\* C35: from the start of a run on, while no observation is submitted, no
\* step raises the vehicleCount of a lane: a lane that gets green again goes
\* on from the count its previous green phase left
C35_CountNeverRisesInRun ==
  [][(runs # <<>> /\ Len(lanes') = Len(lanes) /\ ~UploadDone)
     => \A i \in 1..Len(lanes) :
          (IsObj(lanes[i]) /\ IsObj(lanes'[i]))
          => lanes'[i].vehicleCount <= lanes[i].vehicleCount]_vars

\* a lane record none of whose fields is undefined
FullyDefined(l) ==
  /\ IsObj(l)
  /\ l.image # "undefined"
  /\ l.signalState # "undefined"
  /\ Undef \notin {l.vehicleCount, l.congestionLevel, l.waitingTime,
                    l.greenDuration}

\* C36: in every state the lane array holds exactly laneCount fully defined
\* lane records; in particular it is empty while laneCount is unset, also
\* when an image analysis begun before a reset ends after it
C36_LanesMatchLaneCount ==
  /\ Len(lanes) = laneCount
  /\ \A i \in 1..Len(lanes) : FullyDefined(lanes[i])

\* C37: when a run begins its next cycle, the countdown of its previous
\* cycle has reached zero and has been cleared, whichever of the timeout
\* and the last tick runs first, so that no tick of the previous cycle runs
\* after the new cycle has set its signal states
C37_CountdownClearedBeforeNextCycle ==
  [][\A r \in 1..Len(runs) :
       (CycleStarts(r) /\ ~runs[r].cancelled) => runs[r].ivs = <<>>]_vars

\* C38: isAnalyzing is true in every state in which an image analysis is
\* in flight, also while the analyses of several lanes overlap, so that the
\* Start button is not enabled while an observation is pending
C38_AnalyzingWhilePending ==
  /\ PendingCount > 0 => isAnalyzing
  /\ StartEnabled => PendingCount = 0

====
